---- MODULE Spec2Model ----
(***************************************************************************)
(* A model of misclassified.py: the identifier classifier bucket(), the    *)
(* source registry original_split_for_file() and one run of                *)
(* generate_reallocation_map() (expected sets, allocation loop, misplaced  *)
(* distribution, sort, verification, persistence, return).                 *)
(*                                                                         *)
(* A Python str is a sequence of one-character strings; str comparison is  *)
(* by code point, as in Python.                                            *)
(***************************************************************************)
EXTENDS Integers, Sequences, FiniteSets, TLC

(* ------------------------------------------------------------------ *)
(* Bounds                                                               *)
(* ------------------------------------------------------------------ *)

\* Records over the three origin files together.
MaxRecords == 3

\* Characters of glue before and after the token of a classifier input.
MaxAffix == 2

\* Invocations of the script over the same input files.
MaxRuns == 2

(* ------------------------------------------------------------------ *)
(* Characters and strings                                               *)
(* ------------------------------------------------------------------ *)

UpperChars == <<"A","B","C","D","E","F","G","H","I","J","K","L","M",
                "N","O","P","Q","R","S","T","U","V","W","X","Y","Z">>

LowerChars == <<"a","b","c","d","e","f","g","h","i","j","k","l","m",
                "n","o","p","q","r","s","t","u","v","w","x","y","z">>

DigitChars == <<"0","1","2","3","4","5","6","7","8","9">>

Range(seq) == { seq[i] : i \in 1..Len(seq) }

IndexIn(seq, c) == CHOOSE i \in 1..Len(seq) : seq[i] = c

IsIn(seq, c) == \E i \in 1..Len(seq) : seq[i] = c

\* Two letters outside ASCII, each one character: dotless i and long s.
DotlessI == "U+0131"

LongS == "U+017F"

Chars == Range(UpperChars) \cup Range(LowerChars) \cup Range(DigitChars)
             \cup {"_", ".", " ", "\n", "\t", DotlessI, LongS}

\* ord(c): the code point of the characters the model uses.
CodeTable ==
    [c \in Chars |->
        IF IsIn(UpperChars, c) THEN 64 + IndexIn(UpperChars, c)
        ELSE IF IsIn(LowerChars, c) THEN 96 + IndexIn(LowerChars, c)
        ELSE IF IsIn(DigitChars, c) THEN 47 + IndexIn(DigitChars, c)
        ELSE IF c = "_" THEN 95
        ELSE IF c = "." THEN 46
        ELSE IF c = " " THEN 32
        ELSE IF c = "\n" THEN 10
        ELSE IF c = "\t" THEN 9
        ELSE IF c = DotlessI THEN 305
        ELSE 383]

Code(c) == CodeTable[c]

\* str.lower() of one character (dotless i and long s are lower case already).
LowerTable ==
    [c \in Chars |-> IF IsIn(UpperChars, c) THEN LowerChars[IndexIn(UpperChars, c)] ELSE c]

ToLower(c) == LowerTable[c]

\* str.isspace() on the characters the model uses.
IsSpace(c) == c \in {" ", "\n", "\t"}

\* Python's s < t on str: lexicographic by code point, a proper prefix first.
RECURSIVE StrLess(_, _)
StrLess(s, t) ==
    IF t = <<>> THEN FALSE
    ELSE IF s = <<>> THEN TRUE
    ELSE IF Code(Head(s)) < Code(Head(t)) THEN TRUE
    ELSE IF Code(Head(s)) > Code(Head(t)) THEN FALSE
    ELSE StrLess(Tail(s), Tail(t))

\* str.strip(): leading and trailing whitespace removed.
RECURSIVE LStrip(_)
LStrip(s) == IF s # <<>> /\ IsSpace(Head(s)) THEN LStrip(Tail(s)) ELSE s

RECURSIVE RStrip(_)
RStrip(s) ==
    IF s # <<>> /\ IsSpace(s[Len(s)]) THEN RStrip(SubSeq(s, 1, Len(s) - 1)) ELSE s

Strip(s) == RStrip(LStrip(s))

(* ------------------------------------------------------------------ *)
(* The identifier classifier                                            *)
(* ------------------------------------------------------------------ *)

\* re.IGNORECASE on a str pattern: character c matches the pattern's letter p when
\* their lower cases agree, and dotless i matches "i", long s matches "s".
IgnoreCaseMatch(c, p) ==
    \/ ToLower(c) = ToLower(p)
    \/ (c = DotlessI /\ ToLower(p) = "i")
    \/ (c = LongS /\ ToLower(p) = "s")

\* The literal tok matches s at 0-based offset k.
LiteralAt(s, k, tok) ==
    /\ k + Len(tok) <= Len(s)
    /\ \A j \in 1..Len(tok) : IgnoreCaseMatch(s[k + j], tok[j])

\* "$" without re.MULTILINE at 0-based offset e: the end of the string, or just
\* before a newline that ends the string.
AtEnd(s, e) == e = Len(s) \/ (e = Len(s) - 1 /\ s[Len(s)] = "\n")

\* 0-based offsets where the literal starts when "(?:^|_)" is tried at offset i:
\* "^" consumes nothing and needs i = 0; "_" consumes one character.
GroupEnds(s, i) ==
    (IF i = 0 THEN {0} ELSE {}) \cup (IF i < Len(s) /\ s[i + 1] = "_" THEN {i + 1} ELSE {})

\* Mutant of SuffixSearch: the pattern without its "(?:^|_)", r"<tok>$".
SuffixSearchNoBoundary(s, tok) ==
    \E k \in 0..Len(s) : LiteralAt(s, k, tok) /\ AtEnd(s, k + Len(tok))

\* re.compile(r"(?:^|_)<tok>$", re.IGNORECASE).search(s) finds a match.
SuffixSearch(s, tok) ==
    \E i \in 0..Len(s) : \E k \in GroupEnds(s, i) :
        LiteralAt(s, k, tok) /\ AtEnd(s, k + Len(tok))

RE_VALID(s) == SuffixSearch(s, <<"v","a","l","i","d">>)

RE_TRAIN(s) == SuffixSearch(s, <<"t","r","a","i","n">>)

\* RE_TEST: the (start, group 1) of every match of r"(?:^|_)test([123])$" in s.
RE_TEST(s) ==
    UNION { { <<i, s[k + 5]>> : k \in
                { g \in GroupEnds(s, i) :
                    /\ LiteralAt(s, g, <<"t","e","s","t">>)
                    /\ g + 5 <= Len(s)
                    /\ s[g + 5] \in {"1", "2", "3"}
                    /\ AtEnd(s, g + 5) } } : i \in 0..Len(s) }

\* m.group(1) of the leftmost match.
TestGroup1(ms) ==
    LET first == CHOOSE m \in ms : \A o \in ms : m[1] <= o[1] IN first[2]

bucket(example_id) ==
    LET s == Strip(example_id) IN
    IF RE_VALID(s) THEN "validation"
    ELSE IF RE_TRAIN(s) THEN "train"
    ELSE IF RE_TEST(s) # {} THEN
        (CASE TestGroup1(RE_TEST(s)) = "1" -> "test1"
           [] TestGroup1(RE_TEST(s)) = "2" -> "test2"
           [] OTHER -> "test3")
    ELSE "other"

(* ------------------------------------------------------------------ *)
(* list.sort()                                                          *)
(* ------------------------------------------------------------------ *)

\* x placed after every element that is not greater than it (the sort is stable).
RECURSIVE InsertId(_, _)
InsertId(sorted, x) ==
    IF sorted = <<>> THEN <<x>>
    ELSE IF StrLess(x, Head(sorted)) THEN <<x>> \o sorted
    ELSE <<Head(sorted)>> \o InsertId(Tail(sorted), x)

\* sorted(ids) and ids.sort() on a list of str.
RECURSIVE SortIds(_)
SortIds(ids) ==
    IF ids = <<>> THEN <<>>
    ELSE InsertId(SortIds(SubSeq(ids, 1, Len(ids) - 1)), ids[Len(ids)])

RECURSIVE InsertBySid(_, _)
InsertBySid(sorted, x) ==
    IF sorted = <<>> THEN <<x>>
    ELSE IF StrLess(x[1], Head(sorted)[1]) THEN <<x>> \o sorted
    ELSE <<Head(sorted)>> \o InsertBySid(Tail(sorted), x)

\* tuples.sort(key=lambda x: x[0]): by the id, equal ids in their given order.
RECURSIVE SortBySid(_)
SortBySid(tuples) ==
    IF tuples = <<>> THEN <<>>
    ELSE InsertBySid(SortBySid(SubSeq(tuples, 1, Len(tuples) - 1)), tuples[Len(tuples)])

(* ------------------------------------------------------------------ *)
(* The source registry                                                  *)
(* ------------------------------------------------------------------ *)

TrainJson == <<"t","r","a","i","n",".","j","s","o","n">>

DevJson == <<"d","e","v",".","j","s","o","n">>

TestJson == <<"t","e","s","t",".","j","s","o","n">>

FILES == <<TrainJson, DevJson, TestJson>>

\* str.lower() on the characters the model uses.
Lower(s) == [i \in 1..Len(s) |-> ToLower(s[i])]

\* Mutant of original_split_for_file: the filename compared as it stands, not lowered.
original_split_for_file_exact(filename) ==
    IF filename = TrainJson THEN "train"
    ELSE IF filename = DevJson THEN "test1"
    ELSE IF filename = TestJson THEN "test2"
    ELSE "ValueError"

\* The split name, or "ValueError" when the function raises.
original_split_for_file(filename) ==
    LET fn == Lower(filename) IN
    IF fn = TrainJson THEN "train"
    ELSE IF fn = DevJson THEN "test1"
    ELSE IF fn = TestJson THEN "test2"
    ELSE "ValueError"

\* The keys of allocation.
Splits == {"train", "test1", "test2"}

RECURSIVE Filter(_, _)
Filter(seq, keep) ==
    IF seq = <<>> THEN <<>>
    ELSE (IF Head(seq) \in keep THEN <<Head(seq)>> ELSE <<>>) \o Filter(Tail(seq), keep)

(* ------------------------------------------------------------------ *)
(* generate_reallocation_map: the expected sets                         *)
(* ------------------------------------------------------------------ *)

\* [(rec["id"], bucket(rec["id"])) for rec in data]
SamplesOf(records) == [i \in 1..Len(records) |-> <<records[i].id, bucket(records[i].id)>>]

\* original_counts after the loading loop: original_counts[orig_split] = len(data).
OriginalCounts(d) ==
    [split \in Splits |->
        IF \E i \in 1..Len(FILES) : original_split_for_file(FILES[i]) = split
        THEN Len(d[CHOOSE f \in Range(FILES) : original_split_for_file(f) = split])
        ELSE 0]

\* {sid for sid, bkt in samples if bkt in buckets}
SidsWithBucket(samples, buckets) == { t[1] : t \in { u \in Range(samples) : u[2] \in buckets } }

\* {sid for sid, bkt in samples if bkt not in buckets}
SidsWithoutBucket(samples, buckets) ==
    { t[1] : t \in { u \in Range(samples) : u[2] \notin buckets } }

\* Mutant of TrainJsonMisplaced: the list is left in file order.
TrainJsonMisplacedUnsorted(samples) ==
    Filter(samples, { u \in Range(samples) : u[2] \notin {"train", "other"} })

\* [(sid, bkt) for sid, bkt in samples if bkt not in ("train", "other")], then sorted.
TrainJsonMisplaced(samples) ==
    SortBySid(Filter(samples, { u \in Range(samples) : u[2] \notin {"train", "other"} }))

\* {misplaced[i][0] for i in range(start, len(misplaced), 2)}, start 0-based.
EveryOther(misplaced, start) ==
    { misplaced[i][1] : i \in { j \in 1..Len(misplaced) : j - 1 >= start /\ (j - 1 - start) % 2 = 0 } }

ExpectedSets(sbf) ==
    LET train_json_train_or_other == SidsWithBucket(sbf[TrainJson], {"train", "other"})
        train_json_misplaced == TrainJsonMisplaced(sbf[TrainJson])
        dev_json_train == SidsWithBucket(sbf[DevJson], {"train"})
        dev_json_non_train == SidsWithoutBucket(sbf[DevJson], {"train"})
        test_json_train == SidsWithBucket(sbf[TestJson], {"train"})
        test_json_non_train == SidsWithoutBucket(sbf[TestJson], {"train"})
        misplaced_to_test1 == EveryOther(train_json_misplaced, 0)
        misplaced_to_test2 == EveryOther(train_json_misplaced, 1)
    IN  [ train_json_train_or_other |-> train_json_train_or_other,
          train_json_misplaced |-> train_json_misplaced,
          dev_json_train |-> dev_json_train,
          dev_json_non_train |-> dev_json_non_train,
          test_json_train |-> test_json_train,
          test_json_non_train |-> test_json_non_train,
          misplaced_to_test1 |-> misplaced_to_test1,
          misplaced_to_test2 |-> misplaced_to_test2,
          train |-> train_json_train_or_other \cup dev_json_train \cup test_json_train,
          test1 |-> dev_json_non_train \cup misplaced_to_test1,
          test2 |-> test_json_non_train \cup misplaced_to_test2 ]

(* ------------------------------------------------------------------ *)
(* generate_reallocation_map: the allocation                            *)
(* ------------------------------------------------------------------ *)

\* all_samples before its sort: (sid, filename, bkt) in FILES order.
RECURSIVE AllSamples(_, _)
AllSamples(sbf, k) ==
    IF k > Len(FILES) THEN <<>>
    ELSE [i \in 1..Len(sbf[FILES[k]]) |->
            <<sbf[FILES[k]][i][1], FILES[k], sbf[FILES[k]][i][2]>>]
         \o AllSamples(sbf, k + 1)

\* Mutant of Destination: "other" goes to train from every origin.
DestinationOtherToTrain(orig_split, bkt) ==
    IF bkt = "train" \/ bkt = "other" THEN "train"
    ELSE IF orig_split = "train" THEN "misplaced"
    ELSE orig_split

\* Mutant of Destination: no id leaves the split of its origin file.
DestinationKeepOrigin(orig_split, bkt) == orig_split

\* Mutant of Destination: "other" is not kept in train for the train origin.
DestinationOtherMisplaced(orig_split, bkt) ==
    IF orig_split = "train"
    THEN (IF bkt = "train" THEN "train" ELSE "misplaced")
    ELSE (IF bkt = "train" THEN "train" ELSE orig_split)

\* Mutant of Destination: an id of a non-train origin follows its own test suffix.
DestinationBySuffix(orig_split, bkt) ==
    IF orig_split = "train"
    THEN (IF bkt = "train" \/ bkt = "other" THEN "train" ELSE "misplaced")
    ELSE (IF bkt = "train" THEN "train"
          ELSE IF bkt \in {"test1", "test2"} THEN bkt
          ELSE orig_split)

\* The branch the allocation loop takes for one sample: a split of allocation,
\* or "misplaced" for train_misplaced_list.
Destination(orig_split, bkt) ==
    IF orig_split = "train"
    THEN (IF bkt = "train" \/ bkt = "other" THEN "train" ELSE "misplaced")
    ELSE (IF bkt = "train" THEN "train" ELSE orig_split)

\* The allocation loop over all_samples from position i on.
RECURSIVE AllocationLoop(_, _, _)
AllocationLoop(all_samples, i, st) ==
    IF i > Len(all_samples) THEN st
    ELSE LET sample_id == all_samples[i][1]
             dest == Destination(original_split_for_file(all_samples[i][2]), all_samples[i][3])
         IN  AllocationLoop(all_samples, i + 1,
                IF dest = "misplaced"
                THEN [st EXCEPT !.train_misplaced_list = Append(@, sample_id)]
                ELSE [st EXCEPT !.allocation[dest] = Append(@, sample_id)])

\* Mutant of MisplacedSplit: the parity test inverted.
MisplacedSplitSwapped(i) == IF i % 2 = 0 THEN "test2" ELSE "test1"

\* The split that position i (0-based) of the sorted misplaced list goes to.
MisplacedSplit(i) == IF i % 2 = 0 THEN "test1" ELSE "test2"

\* Mutant of DistributeLoop: only every other misplaced id is appended, the rest lost.
RECURSIVE DistributeLoopEvenOnly(_, _, _)
DistributeLoopEvenOnly(misplaced, i, alloc) ==
    IF i > Len(misplaced) THEN alloc
    ELSE DistributeLoopEvenOnly(misplaced, i + 2,
            [alloc EXCEPT !["test1"] = Append(@, misplaced[i])])

\* for i, sample_id in enumerate(train_misplaced_list): append to test1 or test2.
RECURSIVE DistributeLoop(_, _, _)
DistributeLoop(misplaced, i, alloc) ==
    IF i > Len(misplaced) THEN alloc
    ELSE DistributeLoop(misplaced, i + 1,
            [alloc EXCEPT ![MisplacedSplit(i - 1)] = Append(@, misplaced[i])])

\* Mutant of SortEachSplit: the final sort left out.
SortEachSplitSkipped(alloc) == alloc

\* for split in allocation: allocation[split].sort()
SortEachSplit(alloc) == [split \in Splits |-> SortIds(alloc[split])]

(* ------------------------------------------------------------------ *)
(* generate_reallocation_map: the verification                          *)
(* ------------------------------------------------------------------ *)

\* The [:5] of the samples shown in an error report.
SampleLen == 5

Min(a, b) == IF a < b THEN a ELSE b

\* list(ids)[:5] of a set: its first elements in the set's iteration order, which
\* Python does not fix for a set of str.
Samples(ids) ==
    LET n == Min(SampleLen, Cardinality(ids)) IN
    { q \in [1..n -> ids] : \A i, j \in 1..n : i # j => q[i] # q[j] }

\* The lines the verification of one split appends to errors.
SplitErrors(label, actual, expect, missing_sample, extra_sample) ==
    IF actual # expect
    THEN <<[line |-> "mismatch", split |-> label,
            missing |-> Cardinality(expect \ actual), extra |-> Cardinality(actual \ expect)]>>
         \o (IF expect \ actual # {}
             THEN <<[line |-> "missing", split |-> label, ids |-> missing_sample]>> ELSE <<>>)
         \o (IF actual \ expect # {}
             THEN <<[line |-> "extra", split |-> label, ids |-> extra_sample]>> ELSE <<>>)
    ELSE <<>>

\* Mutant of AfterVerification: the errors are printed and nothing is raised.
AfterVerificationNoRaise(errs) == "write_map"

\* "if errors: raise AssertionError(...)", else the function goes on to its output.
AfterVerification(errs) == IF errs # <<>> THEN "failed" ELSE "write_map"

(* ------------------------------------------------------------------ *)
(* generate_reallocation_map: the output                                *)
(* ------------------------------------------------------------------ *)

OutputPath == "reallocation_map.json"

OriginalMapPath == "original_map.json"

BreakdownPath == "reallocation_breakdown.json"

Sum3(counts) == counts["train"] + counts["test1"] + counts["test2"]

\* The object dumped to output_path.
ReallocationOutput(alloc, counts) ==
    LET new_counts == [k \in Splits |-> Len(alloc[k])] IN
    [ counts_before |-> [counts |-> counts, total |-> Sum3(counts)],
      counts_after |-> [counts |-> new_counts, total |-> Sum3(new_counts)],
      delta |-> [k \in Splits |-> new_counts[k] - counts[k]],
      splits |-> alloc ]

Sids(samples) == [i \in 1..Len(samples) |-> samples[i][1]]

\* The object dumped to original_map.json.
OriginalOutput(sbf) ==
    LET original_map == [ train |-> SortIds(Sids(sbf[TrainJson])),
                          test1 |-> SortIds(Sids(sbf[DevJson])),
                          test2 |-> SortIds(Sids(sbf[TestJson])) ]
    IN  [ counts |-> [k \in Splits |-> Len(original_map[k])], splits |-> original_map ]

\* all_buckets[sid]: the bucket of the last sample with that id, in FILES order.
AllBuckets(sbf, sid) ==
    LET all == AllSamples(sbf, 1)
        last == CHOOSE i \in 1..Len(all) :
                    all[i][1] = sid /\ \A j \in (i + 1)..Len(all) : all[j][1] # sid
    IN  all[last][3]

\* Counter(all_buckets[sid] for sid in split_ids).get(bkt, 0)
BucketCount(sbf, split_ids, bkt) ==
    Cardinality({ i \in 1..Len(split_ids) : AllBuckets(sbf, split_ids[i]) = bkt })

\* The object dumped to reallocation_breakdown.json.
ReallocBreakdown(sbf, alloc) ==
    [split_name \in Splits |->
        [ total |-> Len(alloc[split_name]),
          train |-> BucketCount(sbf, alloc[split_name], "train"),
          validation |-> BucketCount(sbf, alloc[split_name], "validation"),
          test1 |-> BucketCount(sbf, alloc[split_name], "test1"),
          test2 |-> BucketCount(sbf, alloc[split_name], "test2"),
          test3 |-> BucketCount(sbf, alloc[split_name], "test3"),
          other |-> BucketCount(sbf, alloc[split_name], "other") ]]

(* ------------------------------------------------------------------ *)
(* upload_to_hf: parsing the ids of the reallocation map                *)
(* ------------------------------------------------------------------ *)

\* str.upper() of one character (dotless i and long s have the capitals I and S).
UpperTable ==
    [c \in Chars |->
        IF IsIn(LowerChars, c) THEN UpperChars[IndexIn(LowerChars, c)]
        ELSE IF c = DotlessI THEN "I"
        ELSE IF c = LongS THEN "S"
        ELSE c]

Upper(s) == [i \in 1..Len(s) |-> UpperTable[s[i]]]

\* "\d+" tried at 0-based offset k, greedy: the offset after its last digit (k when
\* there is no digit).
DigitsEnd(s, k) ==
    CHOOSE e \in k..Len(s) :
        /\ \A j \in (k + 1)..e : IsIn(DigitChars, s[j])
        /\ (e = Len(s) \/ ~IsIn(DigitChars, s[e + 1]))

\* int() of a string of digits.
RECURSIVE ParseInt(_)
ParseInt(digits) ==
    IF digits = <<>> THEN 0
    ELSE 10 * ParseInt(SubSeq(digits, 1, Len(digits) - 1))
            + (IndexIn(DigitChars, digits[Len(digits)]) - 1)

\* str() of a natural number, as an f-string renders it.
RECURSIVE IntToStr(_)
IntToStr(n) ==
    IF n < 10 THEN <<DigitChars[n + 1]>>
    ELSE IntToStr(n \div 10) \o <<DigitChars[(n % 10) + 1]>>

Str_acibench_ == <<"a","c","i","b","e","n","c","h","_">>

Str_primock57_ == <<"p","r","i","m","o","c","k","5","7","_">>

Str_D2N == <<"D","2","N">>

Str_aci == <<"a","c","i">>

\* The alternatives of the pattern's second group, in its order.
ACI_SUBSETS == << <<"v","i","r","t","a","s","s","i","s","t">>, Str_aci,
                 <<"v","i","r","t","s","c","r","i","b","e">> >>

\* ".+$" tried at 0-based offset k: the offset where the group ends, 0 for no match.
\* "." matches anything but a newline; "$" as in AtEnd.
RestEnd(s, k) ==
    IF k < Len(s) /\ \A j \in (k + 1)..Len(s) : s[j] # "\n" THEN Len(s)
    ELSE IF k < Len(s) - 1 /\ s[Len(s)] = "\n" /\ \A j \in (k + 1)..(Len(s) - 1) : s[j] # "\n"
    THEN Len(s) - 1
    ELSE 0

\* parse_acibench_id: <<(encounter_id, subset, split_info)>>, or <<>> for None.
parse_acibench_id(simord_id) ==
    LET s == simord_id
        d0 == Len(Str_acibench_) + Len(Str_D2N)
        d1 == DigitsEnd(s, IF d0 <= Len(s) THEN d0 ELSE Len(s))
        alts == { a \in 1..Len(ACI_SUBSETS) :
                    /\ LiteralAt(s, d1 + 1, ACI_SUBSETS[a])
                    /\ d1 + 1 + Len(ACI_SUBSETS[a]) < Len(s)
                    /\ s[d1 + 2 + Len(ACI_SUBSETS[a])] = "_"
                    /\ RestEnd(s, d1 + 2 + Len(ACI_SUBSETS[a])) > 0 }
    IN  IF /\ LiteralAt(s, 0, Str_acibench_ \o Str_D2N)
           /\ d1 > d0
           /\ d1 < Len(s)
           /\ s[d1 + 1] = "_"
           /\ alts # {}
        THEN LET a == CHOOSE x \in alts : \A y \in alts : x <= y
                 g2 == d1 + 1 + Len(ACI_SUBSETS[a])
             IN  << [encounter_id |-> SubSeq(s, Len(Str_acibench_) + 1, d1),
                     subset |-> Lower(SubSeq(s, d1 + 2, g2)),
                     split_info |-> Lower(SubSeq(s, g2 + 2, RestEnd(s, g2 + 1))) ] >>
        ELSE <<>>

\* The alternatives of SPLIT_SUFFIX_PATTERN, "test[123]" written out.
SplitSuffixes ==
    { <<"t","r","a","i","n">>, <<"v","a","l","i","d">>, <<"t","e","s","t","1">>,
      <<"t","e","s","t","2">>, <<"t","e","s","t","3">> }

\* extract_split_from_info: group 1 of the leftmost match of
\* r"(train|valid|test[123])$", lowered; split_info itself when nothing matches.
extract_split_from_info(split_info) ==
    LET starts == { k \in 0..Len(split_info) :
                      \E tok \in SplitSuffixes :
                          LiteralAt(split_info, k, tok) /\ AtEnd(split_info, k + Len(tok)) }
    IN  IF starts # {}
        THEN LET k == CHOOSE x \in starts : \A y \in starts : x <= y
                 tok == CHOOSE t \in SplitSuffixes : LiteralAt(split_info, k, t)
             IN  Lower(SubSeq(split_info, k + 1, k + Len(tok)))
        ELSE split_info

\* PRIMOCK_PATTERN.match: r"^primock57_", re.IGNORECASE.
is_primock(simord_id) == LiteralAt(simord_id, 0, Str_primock57_)

\* parse_primock_id: <<(day, consultation)>> as integers, or <<>> for None.
parse_primock_id(simord_id) ==
    LET s == simord_id
        d0 == Len(Str_primock57_)
        d1 == DigitsEnd(s, IF d0 <= Len(s) THEN d0 ELSE Len(s))
        d2 == DigitsEnd(s, IF d1 + 1 <= Len(s) THEN d1 + 1 ELSE Len(s))
    IN  IF /\ LiteralAt(s, 0, Str_primock57_)
           /\ d1 > d0
           /\ d1 < Len(s)
           /\ s[d1 + 1] = "_"
           /\ d2 > d1 + 1
           /\ AtEnd(s, d2)
        THEN << [day |-> ParseInt(SubSeq(s, d0 + 1, d1)),
                 consultation |-> ParseInt(SubSeq(s, d1 + 2, d2))] >>
        ELSE <<>>

(* ------------------------------------------------------------------ *)
(* upload_to_hf: the orders map and one id of build_simord_dataset      *)
(* ------------------------------------------------------------------ *)

\* orders_map[k] = v on a dict kept as the list of its items, in insertion order.
DictSet(om, k, v) ==
    IF \E i \in 1..Len(om) : om[i].key = k
    THEN [i \in 1..Len(om) |-> IF om[i].key = k THEN [key |-> k, orders |-> v] ELSE om[i]]
    ELSE Append(om, [key |-> k, orders |-> v])

\* entry.get("expected_orders", [])
ExpectedOrders(entry) ==
    IF "expected_orders" \in DOMAIN entry THEN entry.expected_orders ELSE <<>>

\* Mutant of load_original_orders: the map is keyed by the lowered id.
RECURSIVE load_original_orders_lowered(_)
load_original_orders_lowered(recs) ==
    IF recs = <<>> THEN <<>>
    ELSE DictSet(load_original_orders_lowered(SubSeq(recs, 1, Len(recs) - 1)),
                 Lower(recs[Len(recs)].id), ExpectedOrders(recs[Len(recs)]))

\* load_original_orders: orders_map[entry["id"]] = entry.get("expected_orders", [])
\* for every entry of the three files, in order.
RECURSIVE load_original_orders(_)
load_original_orders(recs) ==
    IF recs = <<>> THEN <<>>
    ELSE DictSet(load_original_orders(SubSeq(recs, 1, Len(recs) - 1)),
                 recs[Len(recs)].id, ExpectedOrders(recs[Len(recs)]))

\* orders_map.get(k): <<orders>>, or <<>> for None.
OrdersGet(om, k) ==
    IF \E i \in 1..Len(om) : om[i].key = k
    THEN <<om[CHOOSE i \in 1..Len(om) : om[i].key = k].orders>>
    ELSE <<>>

\* The loop over the keys "for key in orders_map": its break stands after the if, in
\* the body of the for, so the loop ends after the first key whatever the comparison.
CaseVariantOrders(om, simord_id) ==
    IF om # <<>> /\ Lower(om[1].key) = Lower(simord_id) THEN <<om[1].orders>> ELSE <<>>

\* "not transcript" after dict.get: the key is absent or its transcript is empty.
NoTranscript(transcripts, key) == key \notin DOMAIN transcripts \/ transcripts[key] = ""

\* The rows id of a primock id.
PrimockRowId(simord_id) ==
    LET parsed == parse_primock_id(simord_id) IN
    IF parsed # <<>>
    THEN Str_primock57_ \o IntToStr(parsed[1].day) \o <<"_">> \o IntToStr(parsed[1].consultation)
    ELSE simord_id

\* f"acibench_{subset}_{original_split}_{encounter_id}"
AcibenchRowId(parsed) ==
    Str_acibench_ \o parsed.subset \o <<"_">> \o extract_split_from_info(parsed.split_info)
        \o <<"_">> \o parsed.encounter_id

\* One iteration of the loop over the ids of a split: the row built (<<>> when the id
\* is skipped) and what is added to each counter.
ProcessId(simord_id, om, aci_tr, pri_tr) ==
    LET none == [row |-> <<>>, acibench |-> 0, primock |-> 0, missing_transcript |-> 0,
                 missing_orders |-> 0, success |-> 0]
        exact == OrdersGet(om, simord_id)
        found == IF exact # <<>> THEN exact ELSE CaseVariantOrders(om, simord_id)
        orders == IF found # <<>> THEN found[1] ELSE <<>>
        Built(row_id, transcript, kind) ==
            [none EXCEPT !.row = <<[id |-> row_id, transcript |-> transcript, orders |-> orders]>>,
                         ![kind] = 1,
                         !.missing_orders = IF found = <<>> THEN 1 ELSE 0,
                         !.success = 1]
    IN  IF is_primock(simord_id)
        THEN IF NoTranscript(pri_tr, simord_id)
             THEN [none EXCEPT !.primock = 1, !.missing_transcript = 1]
             ELSE Built(PrimockRowId(simord_id), pri_tr[simord_id], "primock")
        ELSE LET parsed == parse_acibench_id(simord_id) IN
             IF parsed = <<>>
             THEN [none EXCEPT !.acibench = 1]
             ELSE LET lookup_key == <<Upper(parsed[1].encounter_id), Lower(parsed[1].subset)>> IN
                  IF NoTranscript(aci_tr, lookup_key)
                  THEN [none EXCEPT !.acibench = 1, !.missing_transcript = 1]
                  ELSE Built(AcibenchRowId(parsed[1]), aci_tr[lookup_key], "acibench")

(* ------------------------------------------------------------------ *)
(* State                                                                *)
(* ------------------------------------------------------------------ *)

VARIABLES
    data,                  \* filename -> the records load_json returns for it
    pc,                    \* the position of the run of generate_reallocation_map
    samples_by_file,       \* filename -> [(id, bucket)]
    original_counts,
    expected,              \* the sets built before the allocation
    allocation,            \* split -> list of ids
    train_misplaced_list,
    errors,
    files,                 \* path -> the object dumped to it
    returned,              \* <<allocation>> once the function has returned it
    tampered,              \* <<[from, to, sid]>> once an id was moved between computation and verification
    runs,                  \* invocations started so far
    previous,              \* what the previous invocation returned
    example_id,            \* the argument of a call of bucket
    result,                \* what that call returned
    registry,              \* the filenames the loading loop iterates over
    loaded,                \* how many of them the loading loop has handled
    orig_split,            \* what original_split_for_file returned to the loading loop
    entries,               \* the records of the original files, in file order
    reallocation,          \* reallocation["splits"]: split -> list of ids
    orders_map,            \* the dict of load_original_orders, in insertion order
    acibench_transcripts,  \* (encounter_id, subset) -> dialogue
    primock_transcripts,   \* id -> transcript
    result_rows,           \* result of build_simord_dataset: split -> list of rows
    stats,
    processed              \* the ids handled so far, each with the row built from it

regVars == <<registry, loaded, orig_split>>

asmVars == <<entries, reallocation, orders_map, acibench_transcripts, primock_transcripts,
             result_rows, stats, processed>>

vars == <<data, pc, samples_by_file, original_counts, expected, allocation,
          train_misplaced_list, errors, files, returned, tampered, runs, previous,
          example_id, result, regVars, asmVars>>

runVars == <<data, pc, samples_by_file, original_counts, expected, allocation,
             train_misplaced_list, errors, files, returned, tampered, runs, previous>>

Str_a_valid == <<"a","_","v","a","l","i","d">>

Str_b_train == <<"b","_","t","r","a","i","n">>

Str_c_other == <<"c","_","o","t","h","e","r">>

Str_d_train == <<"d","_","t","r","a","i","n">>

Str_e_test3 == <<"e","_","t","e","s","t","3">>

Str_F_TEST2 == <<"F","_","T","E","S","T","2">>

\* The ids the origin files draw from: every bucket but test1, one id in upper case
\* (it sorts before the lower-case ones).
Universe == {Str_a_valid, Str_b_train, Str_c_other, Str_d_train, Str_e_test3, Str_F_TEST2}

EmptyAllocation == [split \in Splits |-> <<>>]

NoCounts == [split \in Splits |-> 0]

\* The records of the three files: a list of n records cut in three.
InputData(flat, i, j) ==
    [f \in Range(FILES) |->
        IF f = TrainJson THEN [k \in 1..i |-> [id |-> flat[k]]]
        ELSE IF f = DevJson THEN [k \in 1..(j - i) |-> [id |-> flat[i + k]]]
        ELSE [k \in 1..(Len(flat) - j) |-> [id |-> flat[j + k]]]]

NoData == [f \in Range(FILES) |-> <<>>]

RunStart ==
    /\ samples_by_file = NoData
    /\ original_counts = NoCounts
    /\ expected = <<>>
    /\ allocation = EmptyAllocation
    /\ train_misplaced_list = <<>>
    /\ errors = <<>>
    /\ files = <<>>
    /\ returned = <<>>
    /\ tampered = <<>>
    /\ runs = 1
    /\ previous = <<>>

\* total, acibench, primock, missing_transcript, missing_orders, success: all 0.
NoStats ==
    [total |-> 0, acibench |-> 0, primock |-> 0, missing_transcript |-> 0,
     missing_orders |-> 0, success |-> 0]

\* The loading loop over a registry is not under way.
RegistryIdle == registry = <<>> /\ loaded = 0 /\ orig_split = "unset"

\* The assembler has not been started.
AssemblerIdle ==
    /\ entries = <<>>
    /\ reallocation = EmptyAllocation
    /\ orders_map = <<>>
    /\ acibench_transcripts = <<>>
    /\ primock_transcripts = <<>>
    /\ result_rows = EmptyAllocation
    /\ stats = NoStats
    /\ processed = <<>>

Init ==
    /\ \E n \in 0..MaxRecords : \E flat \in [1..n -> Universe] :
         \E i \in 0..n : \E j \in i..n : data = InputData(flat, i, j)
    /\ pc = "load"
    /\ RunStart
    /\ example_id = <<>>
    /\ result = "unset"
    /\ RegistryIdle
    /\ AssemblerIdle

(* ------------------------------------------------------------------ *)
(* The steps of generate_reallocation_map                               *)
(* ------------------------------------------------------------------ *)

\* for filename in FILES: load_json, original_split_for_file, bucket of every id.
LoadSamples ==
    /\ pc = "load"
    /\ samples_by_file' = [f \in Range(FILES) |-> SamplesOf(data[f])]
    /\ original_counts' = OriginalCounts(data)
    /\ pc' = "expect"
    /\ UNCHANGED <<data, expected, allocation, train_misplaced_list, errors, files,
                   returned, tampered, runs, previous, example_id, result,
                   regVars, asmVars>>

BuildExpected ==
    /\ pc = "expect"
    /\ expected' = ExpectedSets(samples_by_file)
    /\ pc' = "allocate"
    /\ UNCHANGED <<data, samples_by_file, original_counts, allocation,
                   train_misplaced_list, errors, files, returned, tampered, runs,
                   previous, example_id, result,
                   regVars, asmVars>>

\* all_samples, its sort, and the loop over it.
Allocate ==
    /\ pc = "allocate"
    /\ LET st == AllocationLoop(SortBySid(AllSamples(samples_by_file, 1)), 1,
                    [allocation |-> EmptyAllocation, train_misplaced_list |-> <<>>])
       IN  /\ allocation' = st.allocation
           /\ train_misplaced_list' = st.train_misplaced_list
    /\ pc' = "distribute"
    /\ UNCHANGED <<data, samples_by_file, original_counts, expected, errors, files,
                   returned, tampered, runs, previous, example_id, result,
                   regVars, asmVars>>

\* Mutant of DistributeMisplaced: the alternation runs over the misplaced ids in the
\* order train.json lists them.
DistributeMisplacedInFileOrder ==
    /\ pc = "distribute"
    /\ train_misplaced_list' = SortIds(train_misplaced_list)
    /\ LET in_file == TrainJsonMisplacedUnsorted(samples_by_file[TrainJson]) IN
         allocation' = DistributeLoop([i \in 1..Len(in_file) |-> in_file[i][1]], 1, allocation)
    /\ pc' = "sort"
    /\ UNCHANGED <<data, samples_by_file, original_counts, expected, errors, files,
                   returned, tampered, runs, previous, example_id, result,
                   regVars, asmVars>>

\* train_misplaced_list.sort() and the alternating appends.
DistributeMisplaced ==
    /\ pc = "distribute"
    /\ train_misplaced_list' = SortIds(train_misplaced_list)
    /\ allocation' = DistributeLoop(SortIds(train_misplaced_list), 1, allocation)
    /\ pc' = "sort"
    /\ UNCHANGED <<data, samples_by_file, original_counts, expected, errors, files,
                   returned, tampered, runs, previous, example_id, result,
                   regVars, asmVars>>

\* Every order of the list.
OrdersOf(ids) ==
    { [i \in 1..Len(ids) |-> ids[p[i]]] : p \in Permutations(1..Len(ids)) }

\* Mutant of SortSplits: each list rebuilt from a set, in the set's iteration order.
SortSplitsAnyOrder ==
    /\ pc = "sort"
    /\ \E tr \in OrdersOf(allocation["train"]) : \E t1 \in OrdersOf(allocation["test1"]) :
         \E t2 \in OrdersOf(allocation["test2"]) :
            allocation' = [train |-> tr, test1 |-> t1, test2 |-> t2]
    /\ pc' = "verify"
    /\ UNCHANGED <<data, samples_by_file, original_counts, expected,
                   train_misplaced_list, errors, files, returned, tampered, runs,
                   previous, example_id, result,
                   regVars, asmVars>>

SortSplits ==
    /\ pc = "sort"
    /\ allocation' = SortEachSplit(allocation)
    /\ pc' = "verify"
    /\ UNCHANGED <<data, samples_by_file, original_counts, expected,
                   train_misplaced_list, errors, files, returned, tampered, runs,
                   previous, example_id, result,
                   regVars, asmVars>>

\* The three comparisons, the report, and the AssertionError when errors is not empty.
Verify ==
    /\ pc = "verify"
    /\ LET actual == [split \in Splits |-> Range(allocation[split])] IN
       \E mt \in Samples(expected.train \ actual["train"]),
          et \in Samples(actual["train"] \ expected.train),
          m1 \in Samples(expected.test1 \ actual["test1"]),
          e1 \in Samples(actual["test1"] \ expected.test1),
          m2 \in Samples(expected.test2 \ actual["test2"]),
          e2 \in Samples(actual["test2"] \ expected.test2) :
            errors' = SplitErrors("TRAIN", actual["train"], expected.train, mt, et)
                      \o SplitErrors("TEST1", actual["test1"], expected.test1, m1, e1)
                      \o SplitErrors("TEST2", actual["test2"], expected.test2, m2, e2)
    /\ pc' = AfterVerification(errors')
    /\ UNCHANGED <<data, samples_by_file, original_counts, expected, allocation,
                   train_misplaced_list, files, returned, tampered, runs, previous,
                   example_id, result,
                   regVars, asmVars>>

\* Mutant of Dump: every object is written to output_path.
DumpToOutputPath(fs, path, obj) == (OutputPath :> obj) @@ fs

\* open(path, "w") and json.dump(obj, f)
Dump(fs, path, obj) == (path :> obj) @@ fs

WriteReallocationMap ==
    /\ pc = "write_map"
    /\ files' = Dump(files, OutputPath, ReallocationOutput(allocation, original_counts))
    /\ pc' = "write_original"
    /\ UNCHANGED <<data, samples_by_file, original_counts, expected, allocation,
                   train_misplaced_list, errors, returned, tampered, runs, previous,
                   example_id, result,
                   regVars, asmVars>>

WriteOriginalMap ==
    /\ pc = "write_original"
    /\ files' = Dump(files, OriginalMapPath, OriginalOutput(samples_by_file))
    /\ pc' = "write_breakdown"
    /\ UNCHANGED <<data, samples_by_file, original_counts, expected, allocation,
                   train_misplaced_list, errors, returned, tampered, runs, previous,
                   example_id, result,
                   regVars, asmVars>>

WriteBreakdown ==
    /\ pc = "write_breakdown"
    /\ files' = Dump(files, BreakdownPath, ReallocBreakdown(samples_by_file, allocation))
    /\ pc' = "return"
    /\ UNCHANGED <<data, samples_by_file, original_counts, expected, allocation,
                   train_misplaced_list, errors, returned, tampered, runs, previous,
                   example_id, result,
                   regVars, asmVars>>

Return ==
    /\ pc = "return"
    /\ returned' = <<allocation>>
    /\ pc' = "done"
    /\ UNCHANGED <<data, samples_by_file, original_counts, expected, allocation,
                   train_misplaced_list, errors, files, tampered, runs, previous,
                   example_id, result,
                   regVars, asmVars>>

Next ==
    \/ LoadSamples
    \/ BuildExpected
    \/ Allocate
    \/ DistributeMisplaced
    \/ SortSplits
    \/ Verify
    \/ WriteReallocationMap
    \/ WriteOriginalMap
    \/ WriteBreakdown
    \/ Return

Spec == Init /\ [][Next]_vars

(* ------------------------------------------------------------------ *)
(* Calls of bucket on its own                                           *)
(* ------------------------------------------------------------------ *)

\* Every string over alphabet of length at most n.
RECURSIVE StringsUpTo(_, _)
StringsUpTo(alphabet, n) ==
    IF n = 0 THEN {<<>>}
    ELSE LET shorter == StringsUpTo(alphabet, n - 1) IN
         shorter \cup { Append(t, c) : t \in shorter, c \in alphabet }

\* What stands before and after a token: a letter, the separator, whitespace.
GlueChars == {"x", "_", " ", "\n"}

Tokens ==
    { <<"v","a","l","i","d">>, <<"t","r","a","i","n">>,
      <<"t","e","s","t","0">>, <<"t","e","s","t","1">>, <<"t","e","s","t","2">>,
      <<"t","e","s","t","3">>, <<"t","e","s","t","4">>, <<"t","e","s","t">>,
      <<"V","a","l","i","d">>, <<"T","R","A","I","N">>, <<"t","E","s","T","2">>,
      <<"t","r","a",DotlessI,"n">>, <<"t","e",LongS,"t","1">> }

\* An earlier token in front of the glue, or nothing.
Leads == { <<>>, <<"t","e","s","t","1">> }

ClassifierInputs ==
    { lead \o pre \o tok \o suf :
        lead \in Leads, pre \in StringsUpTo(GlueChars, MaxAffix),
        tok \in Tokens, suf \in StringsUpTo(GlueChars, MaxAffix) }

InitBucket ==
    /\ example_id \in ClassifierInputs
    /\ result = "unset"
    /\ data = NoData
    /\ pc = "idle"
    /\ RunStart
    /\ RegistryIdle
    /\ AssemblerIdle

Classify ==
    /\ result = "unset"
    /\ pc = "idle"
    /\ result' = bucket(example_id)
    /\ UNCHANGED <<runVars, example_id, regVars, asmVars>>

NextBucket == Classify

SpecBucket == InitBucket /\ [][NextBucket]_vars

(* ------------------------------------------------------------------ *)
(* A run whose allocation is changed before it is verified              *)
(* ------------------------------------------------------------------ *)

\* ids.remove(sid): the first occurrence removed.
RemoveFirst(ids, sid) ==
    LET i == CHOOSE k \in 1..Len(ids) : ids[k] = sid /\ \A j \in 1..(k - 1) : ids[j] # sid
    IN  SubSeq(ids, 1, i - 1) \o SubSeq(ids, i + 1, Len(ids))

\* One id moved from its split to another one, after the allocation was computed.
MoveId(alloc, from, to, sid) ==
    [alloc EXCEPT ![from] = RemoveFirst(@, sid), ![to] = Append(@, sid)]

Tamper ==
    /\ pc = "verify"
    /\ tampered = <<>>
    /\ \E from \in Splits : \E to \in Splits \ {from} : \E sid \in Range(allocation[from]) :
         /\ allocation' = MoveId(allocation, from, to, sid)
         /\ tampered' = <<[from |-> from, to |-> to, sid |-> sid]>>
    /\ UNCHANGED <<data, pc, samples_by_file, original_counts, expected,
                   train_misplaced_list, errors, files, returned, runs, previous,
                   example_id, result,
                   regVars, asmVars>>

NextTamper == Next \/ Tamper

SpecTamper == Init /\ [][NextTamper]_vars

(* ------------------------------------------------------------------ *)
(* The script run again over the same files                             *)
(* ------------------------------------------------------------------ *)

\* A new invocation: the input files and the files written so far stay on disk.
Rerun ==
    /\ pc = "done"
    /\ runs < MaxRuns
    /\ runs' = runs + 1
    /\ previous' = returned
    /\ pc' = "load"
    /\ samples_by_file' = NoData
    /\ original_counts' = NoCounts
    /\ expected' = <<>>
    /\ allocation' = EmptyAllocation
    /\ train_misplaced_list' = <<>>
    /\ errors' = <<>>
    /\ returned' = <<>>
    /\ UNCHANGED <<data, files, tampered, example_id, result,
                   regVars, asmVars>>

NextRerun == Next \/ Rerun

SpecRerun == Init /\ [][NextRerun]_vars

(* ------------------------------------------------------------------ *)
(* The loading loop over a registry of any filenames                    *)
(* ------------------------------------------------------------------ *)

MaxFiles == 3

DotJson == <<".","j","s","o","n">>

\* The three names in several cases, and names the registry does not know.
FileNames ==
    { TrainJson, DevJson, TestJson,
      <<"T","R","A","I","N",".","J","S","O","N">>,
      <<"D","e","v">> \o DotJson,
      <<"t","e","s","t",".","J","S","O","N">>,
      <<"v","a","l","i","d">> \o DotJson,
      <<"t","e","s","t","1">> \o DotJson,
      <<"t","r","a","i","n">>,
      <<"t","e",LongS,"t">> \o DotJson }

\* What load_json finds in the files: nothing, or two records.
FileContents == { <<>>, <<[id |-> Str_a_valid], [id |-> Str_c_other]>> }

InitRegistry ==
    /\ \E n \in 1..MaxFiles : registry \in [1..n -> FileNames]
    /\ \E recs \in FileContents : data = [f \in Range(registry) |-> recs]
    /\ loaded = 0
    /\ orig_split = "unset"
    /\ pc = "load_file"
    /\ samples_by_file = <<>>
    /\ original_counts = NoCounts
    /\ expected = <<>>
    /\ allocation = EmptyAllocation
    /\ train_misplaced_list = <<>>
    /\ errors = <<>>
    /\ files = <<>>
    /\ returned = <<>>
    /\ tampered = <<>>
    /\ runs = 1
    /\ previous = <<>>
    /\ example_id = <<>>
    /\ result = "unset"
    /\ AssemblerIdle

\* One iteration of the loading loop: load_json, original_split_for_file, the two
\* assignments. The loop has no try: a ValueError leaves generate_reallocation_map.
LoadFile ==
    /\ pc = "load_file"
    /\ loaded < Len(registry)
    /\ LET filename == registry[loaded + 1] IN
        /\ orig_split' = original_split_for_file(filename)
        /\ IF orig_split' = "ValueError"
           THEN /\ pc' = "ValueError"
                /\ UNCHANGED <<original_counts, samples_by_file, loaded>>
           ELSE /\ original_counts' = [original_counts EXCEPT ![orig_split'] = Len(data[filename])]
                /\ samples_by_file' = (filename :> SamplesOf(data[filename])) @@ samples_by_file
                /\ loaded' = loaded + 1
                /\ pc' = IF loaded' = Len(registry) THEN "loaded" ELSE "load_file"
    /\ UNCHANGED <<data, expected, allocation, train_misplaced_list, errors, files,
                   returned, tampered, runs, previous, example_id, result, registry,
                   asmVars>>

NextRegistry == LoadFile

SpecRegistry == InitRegistry /\ [][NextRegistry]_vars

(* ------------------------------------------------------------------ *)
(* A run over the five-record scenario and its sub-lists                *)
(* ------------------------------------------------------------------ *)

\* train.json = [a_valid, b_train, c_other], dev.json = [d_train], test.json = [e_test3]
ScenarioData ==
    [f \in Range(FILES) |->
        IF f = TrainJson
        THEN <<[id |-> Str_a_valid], [id |-> Str_b_train], [id |-> Str_c_other]>>
        ELSE IF f = DevJson THEN <<[id |-> Str_d_train]>>
        ELSE <<[id |-> Str_e_test3]>>]

\* The lists got from records by leaving records out.
RECURSIVE SubLists(_)
SubLists(records) ==
    IF records = <<>> THEN {<<>>}
    ELSE LET rest == SubLists(Tail(records)) IN
         rest \cup { <<Head(records)>> \o r : r \in rest }

InitScenario ==
    /\ data \in { d \in [Range(FILES) -> SubLists(ScenarioData[TrainJson])
                                            \cup SubLists(ScenarioData[DevJson])
                                            \cup SubLists(ScenarioData[TestJson])] :
                     \A f \in Range(FILES) : d[f] \in SubLists(ScenarioData[f]) }
    /\ pc = "load"
    /\ RunStart
    /\ example_id = <<>>
    /\ result = "unset"
    /\ RegistryIdle
    /\ AssemblerIdle

SpecScenario == InitScenario /\ [][Next]_vars

(* ------------------------------------------------------------------ *)
(* The script run again after the records of the files were reordered   *)
(* ------------------------------------------------------------------ *)

\* The orders of the records of each file.
Reorderings(d) ==
    { [f \in Range(FILES) |-> IF f = TrainJson THEN tr ELSE IF f = DevJson THEN dv ELSE ts] :
        tr \in OrdersOf(d[TrainJson]), dv \in OrdersOf(d[DevJson]), ts \in OrdersOf(d[TestJson]) }

\* A new invocation over the same records, each file's records in another order.
RerunReordered ==
    /\ pc = "done"
    /\ runs < MaxRuns
    /\ data' \in Reorderings(data) \ {data}
    /\ runs' = runs + 1
    /\ previous' = returned
    /\ pc' = "load"
    /\ samples_by_file' = NoData
    /\ original_counts' = NoCounts
    /\ expected' = <<>>
    /\ allocation' = EmptyAllocation
    /\ train_misplaced_list' = <<>>
    /\ errors' = <<>>
    /\ returned' = <<>>
    /\ UNCHANGED <<files, tampered, example_id, result, regVars, asmVars>>

NextReordered == Next \/ RerunReordered

SpecReordered == Init /\ [][NextReordered]_vars

(* ------------------------------------------------------------------ *)
(* upload_to_hf: load_original_orders, then build_simord_dataset        *)
(* ------------------------------------------------------------------ *)

MaxMapIds == 2

MaxEntries == 2

Str__train == <<"_","t","r","a","i","n">>

\* acibench_D2N1_aci_train
Id_aci_train == Str_acibench_ \o Str_D2N \o <<"1","_">> \o Str_aci \o Str__train

\* acibench_D2N1_aci_x_train: the same encounter, more in front of the split
Id_aci_x_train == Str_acibench_ \o Str_D2N \o <<"1","_">> \o Str_aci \o <<"_","x">> \o Str__train

\* ACIBENCH_D2N1_ACI_TRAIN
Id_ACI_TRAIN == Upper(Id_aci_train)

\* acibench_D2N1_train: no subset
Id_no_subset == Str_acibench_ \o Str_D2N \o <<"1">> \o Str__train

\* primock57_1_1
Id_primock_1_1 == Str_primock57_ \o <<"1","_","1">>

\* primock57_01_1
Id_primock_01_1 == Str_primock57_ \o <<"0","1","_","1">>

\* The ids a map is drawn from when the transcripts vary.
AssembleIds == {Id_aci_train, Id_aci_x_train, Id_no_subset, Id_primock_1_1, Id_primock_01_1}

\* The ids a map is drawn from when the original records vary, and the ids of these.
OrdersMapIds == {Id_aci_train, Id_primock_1_1}

EntryIds == {Id_aci_train, Id_ACI_TRAIN, Id_primock_1_1}

\* An expected_orders list: one order, which names its record.
Payload(id) == <<[order_of |-> id]>>

\* A record of an original file, with or without its expected_orders.
Entries(ids) == { [id |-> x] : x \in ids } \cup { [id |-> x, expected_orders |-> Payload(x)] : x \in ids }

\* reallocation["splits"]: a list of n ids cut in three.
SplitsOf(flat, i, j) ==
    [split \in Splits |->
        IF split = "train" THEN SubSeq(flat, 1, i)
        ELSE IF split = "test1" THEN SubSeq(flat, i + 1, j)
        ELSE SubSeq(flat, j + 1, Len(flat))]

Maps(ids) ==
    UNION { { SplitsOf(flat, cut[1], cut[2]) :
                cut \in { c \in (0..Len(flat)) \X (0..Len(flat)) : c[1] <= c[2] } } :
            flat \in UNION { [1..n -> ids] : n \in 0..MaxMapIds } }

\* The key of the one ACI-Bench encounter the ids name.
EncounterKey == <<Str_D2N \o <<"1">>, Str_aci>>

\* The engine is not part of these runs.
EngineIdle ==
    /\ data = NoData
    /\ RunStart
    /\ example_id = <<>>
    /\ result = "unset"
    /\ RegistryIdle

AssemblerStart ==
    /\ orders_map = <<>>
    /\ result_rows = EmptyAllocation
    /\ stats = NoStats
    /\ processed = <<>>
    /\ pc = "load_orders"

\* Any map over AssembleIds, any state of the two transcript collaborators.
InitAssemble ==
    /\ reallocation \in Maps(AssembleIds)
    /\ entries = <<[id |-> Id_aci_train, expected_orders |-> Payload(Id_aci_train)],
                    [id |-> Id_primock_1_1]>>
    /\ acibench_transcripts \in {<<>>, EncounterKey :> "", EncounterKey :> "dialogue"}
    /\ \E present \in SUBSET {Id_primock_1_1, Id_primock_01_1} :
         primock_transcripts = [x \in present |-> "transcript"]
    /\ AssemblerStart
    /\ EngineIdle

\* Any map over OrdersMapIds, any original records; every transcript is there.
InitOrders ==
    /\ reallocation \in Maps(OrdersMapIds)
    /\ \E n \in 0..MaxEntries : entries \in [1..n -> Entries(EntryIds)]
    /\ acibench_transcripts = EncounterKey :> "dialogue"
    /\ primock_transcripts = [x \in {Id_primock_1_1} |-> "transcript"]
    /\ AssemblerStart
    /\ EngineIdle

\* for split_name, ids in splits.items(): for simord_id in ids: the pairs in order.
SplitOrder == <<"train", "test1", "test2">>

RECURSIVE MapItems(_, _)
MapItems(splits, k) ==
    IF k > Len(SplitOrder) THEN <<>>
    ELSE [i \in 1..Len(splits[SplitOrder[k]]) |->
            [split_name |-> SplitOrder[k], simord_id |-> splits[SplitOrder[k]][i]]]
         \o MapItems(splits, k + 1)

LoadOriginalOrders ==
    /\ pc = "load_orders"
    /\ orders_map' = load_original_orders(entries)
    /\ pc' = "build"
    /\ UNCHANGED <<data, samples_by_file, original_counts, expected, allocation,
                   train_misplaced_list, errors, files, returned, tampered, runs, previous,
                   example_id, result, regVars, entries, reallocation,
                   acibench_transcripts, primock_transcripts, result_rows, stats,
                   processed>>

\* The body of the inner loop for the next id of the map.
BuildRow ==
    /\ pc = "build"
    /\ Len(processed) < Len(MapItems(reallocation, 1))
    /\ LET item == MapItems(reallocation, 1)[Len(processed) + 1]
           out == ProcessId(item.simord_id, orders_map, acibench_transcripts,
                            primock_transcripts)
       IN  /\ stats' = [total |-> stats.total + 1,
                        acibench |-> stats.acibench + out.acibench,
                        primock |-> stats.primock + out.primock,
                        missing_transcript |-> stats.missing_transcript + out.missing_transcript,
                        missing_orders |-> stats.missing_orders + out.missing_orders,
                        success |-> stats.success + out.success]
           /\ result_rows' = IF out.row = <<>> THEN result_rows
                             ELSE [result_rows EXCEPT ![item.split_name] = Append(@, out.row[1])]
           /\ processed' = Append(processed, [simord_id |-> item.simord_id,
                                              split_name |-> item.split_name,
                                              row |-> out.row])
    /\ UNCHANGED <<data, pc, samples_by_file, original_counts, expected, allocation,
                   train_misplaced_list, errors, files, returned, tampered, runs, previous,
                   example_id, result, regVars, entries, reallocation, orders_map,
                   acibench_transcripts, primock_transcripts>>

\* The loops are over: the stats are printed and result is returned.
ReturnRows ==
    /\ pc = "build"
    /\ Len(processed) = Len(MapItems(reallocation, 1))
    /\ pc' = "built"
    /\ UNCHANGED <<data, samples_by_file, original_counts, expected, allocation,
                   train_misplaced_list, errors, files, returned, tampered, runs, previous,
                   example_id, result, regVars, asmVars>>

NextAssemble == LoadOriginalOrders \/ BuildRow \/ ReturnRows

SpecAssemble == InitAssemble /\ [][NextAssemble]_vars

SpecOrders == InitOrders /\ [][NextAssemble]_vars

(* ------------------------------------------------------------------ *)
(* Properties                                                           *)
(* ------------------------------------------------------------------ *)

\* The ids of the records of all three files, in FILES order.
InputIds == [i \in 1..Len(data[TrainJson]) |-> data[TrainJson][i].id]
            \o [i \in 1..Len(data[DevJson]) |-> data[DevJson][i].id]
            \o [i \in 1..Len(data[TestJson]) |-> data[TestJson][i].id]

IdsOf(f) == { data[f][i].id : i \in 1..Len(data[f]) }

\* The ids are globally unique: no id on two records.
UniqueIds == Cardinality(Range(InputIds)) = Len(InputIds)

Occurrences(ids, x) == Cardinality({ i \in 1..Len(ids) : ids[i] = x })

\* s <= t in Python's order on str.
StrLeq(s, t) == ~StrLess(t, s)

IsSortedIds(ids) == \A i \in 1..Len(ids) : \A j \in (i + 1)..Len(ids) : StrLeq(ids[i], ids[j])

\* The allocation loop has run.
Allocated ==
    pc \in {"distribute", "sort", "verify", "failed", "write_map", "write_original",
            "write_breakdown", "return", "done"}

\* The split lists are final: misplaced ids distributed, every list sorted.
Emitted ==
    pc \in {"verify", "failed", "write_map", "write_original", "write_breakdown",
            "return", "done"}

\* The verification has passed.
Verified == pc \in {"write_map", "write_original", "write_breakdown", "return", "done"}

IsPartition(alloc) ==
    /\ DOMAIN alloc = Splits
    /\ Range(alloc["train"]) \cap Range(alloc["test1"]) = {}
    /\ Range(alloc["train"]) \cap Range(alloc["test2"]) = {}
    /\ Range(alloc["test1"]) \cap Range(alloc["test2"]) = {}
    /\ Range(alloc["train"]) \cup Range(alloc["test1"]) \cup Range(alloc["test2"])
         = Range(InputIds)

\* C1: with globally unique input ids, the emitted and the returned allocation is a
\* partition of the input ids: train, test1 and test2 are pairwise disjoint, their
\* union is the set of all input ids, and there is no other split key.
C1_Partition ==
    UniqueIds =>
        /\ (Emitted => IsPartition(allocation))
        /\ (returned # <<>> => IsPartition(returned[1]))

\* C1 witness: a returned allocation of unique ids with all three splits used.
C1_Witness ==
    /\ UniqueIds
    /\ returned # <<>>
    /\ \A split \in Splits : returned[1][split] # <<>>

\* C2 (as claimed): once the verification has passed, every input id stands in exactly
\* one split list, exactly once.
C2_VerifiedNoDuplicate ==
    Verified =>
        \A x \in Range(InputIds) :
            Occurrences(allocation["train"], x) + Occurrences(allocation["test1"], x)
              + Occurrences(allocation["test2"], x) = 1

\* C3: a failed verification writes no file and returns no allocation.
C3_FailBeforePersist ==
    (errors # <<>> \/ pc = "failed") => (pc = "failed" /\ files = <<>> /\ returned = <<>>)

\* C3 witness: a run whose verification found a mismatch.
C3_Witness == pc = "failed" /\ errors # <<>>

\* Lines of the error report that name a mismatch of the split.
Mismatch(label) == \E i \in 1..Len(errors) : errors[i].line = "mismatch" /\ errors[i].split = label

LabelOf(split) == IF split = "train" THEN "TRAIN" ELSE IF split = "test1" THEN "TEST1" ELSE "TEST2"

\* C4 (as claimed): when one id was moved to another split after the computation, the
\* verification reports a mismatch for at least one split and the run fails with
\* nothing written.
C4_TamperCaught ==
    (tampered # <<>> /\ pc # "verify") =>
        /\ pc = "failed"
        /\ \E split \in Splits : Mismatch(LabelOf(split))
        /\ files = <<>>
        /\ returned = <<>>

RecordsWith(f, x) == Cardinality({ i \in 1..Len(data[f]) : data[f][i].id = x })

\* C6: a train.json id of bucket train or other is in split train, once per record;
\* a train.json id of any other bucket is on the misplaced list, once per record, and
\* not in split train.
C6_TrainOrigin ==
    Allocated =>
        \A x \in IdsOf(TrainJson) :
            IF bucket(x) \in {"train", "other"}
            THEN /\ x \in Range(allocation["train"])
                 /\ Occurrences(allocation["train"], x) >= RecordsWith(TrainJson, x)
                 /\ x \notin Range(train_misplaced_list)
            ELSE /\ bucket(x) \in {"validation", "test1", "test2", "test3"}
                 /\ Occurrences(train_misplaced_list, x) = RecordsWith(TrainJson, x)
                 /\ x \notin Range(allocation["train"])

\* C6 witness: train.json holds an id of bucket other, one of bucket train and a
\* misplaced one, and the allocation loop has run.
C6_Witness ==
    /\ pc = "distribute"
    /\ \E x, y, z \in IdsOf(TrainJson) :
         bucket(x) = "other" /\ bucket(y) = "train" /\ bucket(z) = "validation"

\* C7: a dev.json or test.json id of bucket train is in split train; every other
\* dev.json id is in test1 and every other test.json id is in test2, whatever its
\* bucket, once per record when the allocation loop ends (and, with unique ids, in no
\* other split).
C7_NonTrainOrigin ==
    /\ Allocated =>
        /\ \A x \in IdsOf(DevJson) :
             IF bucket(x) = "train" THEN x \in Range(allocation["train"])
             ELSE /\ x \in Range(allocation["test1"])
                  /\ (UniqueIds => x \notin Range(allocation["train"]) \cup Range(allocation["test2"]))
        /\ \A x \in IdsOf(TestJson) :
             IF bucket(x) = "train" THEN x \in Range(allocation["train"])
             ELSE /\ x \in Range(allocation["test2"])
                  /\ (UniqueIds => x \notin Range(allocation["train"]) \cup Range(allocation["test1"]))
    /\ pc = "distribute" =>
        \A x \in IdsOf(DevJson) \cup IdsOf(TestJson) :
            IF bucket(x) = "train"
            THEN /\ Occurrences(allocation["train"], x)
                      = RecordsWith(TrainJson, x) + RecordsWith(DevJson, x) + RecordsWith(TestJson, x)
                 /\ x \notin Range(allocation["test1"]) \cup Range(allocation["test2"])
            ELSE /\ Occurrences(allocation["test1"], x) = RecordsWith(DevJson, x)
                 /\ Occurrences(allocation["test2"], x) = RecordsWith(TestJson, x)

\* C7 witness: dev.json holds an id of bucket test2 and test.json one of bucket train.
C7_Witness ==
    /\ pc = "done"
    /\ \E x \in IdsOf(DevJson) : bucket(x) = "test2" /\ x \in Range(allocation["test1"])
    /\ \E y \in IdsOf(TestJson) : bucket(y) = "train"

\* The number of train.json records whose bucket is neither train nor other.
NMisplaced ==
    Cardinality({ i \in 1..Len(data[TrainJson]) :
                    bucket(data[TrainJson][i].id) \notin {"train", "other"} })

\* The number of records of the file whose bucket is not train.
NNonTrain(f) == Cardinality({ i \in 1..Len(data[f]) : bucket(data[f][i].id) # "train" })

\* What the distribution appended to the split: all that follows the ids the
\* allocation loop put there.
Contribution(split, f) == SubSeq(allocation[split], NNonTrain(f) + 1, Len(allocation[split]))

\* C8: right after the distribution, the misplaced list is the N misplaced train.json
\* ids in sorted order, test1 got those at the even 0-based positions and test2 those
\* at the odd ones, in that order: ceil(N/2) and floor(N/2) ids; the verifier's two
\* halves are the same ids.
C8_Alternate ==
    pc = "sort" =>
        /\ Len(train_misplaced_list) = NMisplaced
        /\ IsSortedIds(train_misplaced_list)
        /\ \A x \in Range(InputIds) :
             Occurrences(train_misplaced_list, x)
               = (IF bucket(x) \in {"train", "other"} THEN 0 ELSE RecordsWith(TrainJson, x))
        /\ Len(Contribution("test1", DevJson)) = (NMisplaced + 1) \div 2
        /\ Len(Contribution("test2", TestJson)) = NMisplaced \div 2
        /\ \A k \in 1..Len(train_misplaced_list) :
             IF (k - 1) % 2 = 0
             THEN Contribution("test1", DevJson)[(k + 1) \div 2] = train_misplaced_list[k]
             ELSE Contribution("test2", TestJson)[k \div 2] = train_misplaced_list[k]
        /\ expected.misplaced_to_test1 = Range(Contribution("test1", DevJson))
        /\ expected.misplaced_to_test2 = Range(Contribution("test2", TestJson))

\* C8 witness: three misplaced ids were distributed, two to test1 and one to test2.
C8_Witness ==
    /\ pc = "sort"
    /\ NMisplaced = 3
    /\ Cardinality(Range(train_misplaced_list)) = 3

\* C9: every split list is in non-decreasing order when it is verified, persisted and
\* returned.
C9_Sorted ==
    /\ Emitted => \A split \in Splits : IsSortedIds(allocation[split])
    /\ OutputPath \in DOMAIN files =>
         \A split \in Splits : IsSortedIds(files[OutputPath].splits[split])
    /\ returned # <<>> => \A split \in Splits : IsSortedIds(returned[1][split])

\* C9 witness: a misplaced id that was appended to test1 after a greater dev.json id
\* and stands before it in the returned list.
C9_Witness ==
    /\ returned # <<>>
    /\ \E x \in IdsOf(DevJson) : \E m \in Range(train_misplaced_list) :
         /\ StrLess(m, x)
         /\ \E i, j \in 1..Len(returned[1]["test1"]) :
              i < j /\ returned[1]["test1"][i] = m /\ returned[1]["test1"][j] = x

EndsWith(s, suffix) ==
    Len(s) >= Len(suffix) /\ SubSeq(s, Len(s) - Len(suffix) + 1, Len(s)) = suffix

\* The id is the token, or ends with "_" and the token.
IsOrEndsWith(s, tok) == s = tok \/ EndsWith(s, <<"_">> \o tok)

\* The reference classifier on an id whose case is folded already.
Reference(s) ==
    IF IsOrEndsWith(s, <<"v","a","l","i","d">>) THEN "validation"
    ELSE IF IsOrEndsWith(s, <<"t","r","a","i","n">>) THEN "train"
    ELSE IF IsOrEndsWith(s, <<"t","e","s","t","1">>) THEN "test1"
    ELSE IF IsOrEndsWith(s, <<"t","e","s","t","2">>) THEN "test2"
    ELSE IF IsOrEndsWith(s, <<"t","e","s","t","3">>) THEN "test3"
    ELSE "other"

\* The letters re.IGNORECASE matches with a lower-case ASCII letter, brought to it.
IgnoreCaseFold(s) ==
    [i \in 1..Len(s) |->
        IF s[i] = DotlessI THEN "i" ELSE IF s[i] = LongS THEN "s" ELSE ToLower(s[i])]

\* C10 (as claimed): bucket(id) is the reference classifier of the id as it stands,
\* compared case-insensitively.
C10_ReferenceOnRawId == result # "unset" => result = Reference(IgnoreCaseFold(example_id))

\* C10 (amended): bucket(id) is the reference classifier of the id with the
\* whitespace at its ends removed, compared case-insensitively.
C10_ReferenceOnStrippedId ==
    result # "unset" => result = Reference(IgnoreCaseFold(Strip(example_id)))

\* C10 witness: an id with whitespace at an end and an upper-case letter that is
\* classified by its token.
C10_Witness ==
    /\ result \in {"validation", "train", "test2"}
    /\ example_id # Strip(example_id)
    /\ example_id # Lower(example_id)

\* The two strings are equal up to the case of their ASCII letters.
SameIgnoringCase(s, t) ==
    /\ Len(s) = Len(t)
    /\ \A i \in 1..Len(s) :
         \/ s[i] = t[i]
         \/ \E k \in 1..Len(UpperChars) :
              {s[i], t[i]} = {UpperChars[k], LowerChars[k]}

\* The split the registry gives an origin name, "none" for a name it does not know.
CanonicalSplit(filename) ==
    IF SameIgnoringCase(filename, TrainJson) THEN "train"
    ELSE IF SameIgnoringCase(filename, DevJson) THEN "test1"
    ELSE IF SameIgnoringCase(filename, TestJson) THEN "test2"
    ELSE "none"

\* C11: original_split_for_file gives train.json train, dev.json test1 and test.json
\* test2, whatever the case of the name, and raises ValueError for every other name,
\* giving no split; the loading loop does not catch the error: it handles no file
\* after the unknown name, records nothing for it, writes and returns nothing.
C11_UnknownOriginFatal ==
    /\ \A k \in 1..loaded :
         /\ CanonicalSplit(registry[k]) \in Splits
         /\ registry[k] \in DOMAIN samples_by_file
    /\ (pc = "load_file" /\ loaded > 0) => orig_split = CanonicalSplit(registry[loaded])
    /\ pc = "loaded" =>
         /\ loaded = Len(registry)
         /\ orig_split = CanonicalSplit(registry[loaded])
         /\ original_counts[orig_split] = Len(data[registry[loaded]])
    /\ pc = "ValueError" <=> orig_split = "ValueError"
    /\ pc = "ValueError" =>
         /\ loaded < Len(registry)
         /\ CanonicalSplit(registry[loaded + 1]) = "none"
         /\ \A k \in (loaded + 1)..Len(registry) :
              (\A j \in 1..loaded : registry[j] # registry[k])
                  => registry[k] \notin DOMAIN samples_by_file
         /\ files = <<>>
         /\ returned = <<>>
         /\ allocation = EmptyAllocation

\* C11 witness: a name in upper case was given its split, then an unknown name raised.
C11_Witness ==
    /\ pc = "ValueError"
    /\ loaded > 0
    /\ registry[1] # Lower(registry[1])
    /\ original_counts # NoCounts

\* What the scenario yields.
ScenarioYield ==
    [train |-> {Str_b_train, Str_c_other, Str_d_train},
     test1 |-> {Str_a_valid},
     test2 |-> {Str_e_test3}]

\* C12: with train.json = [a_valid, b_train, c_other], dev.json = [d_train] and
\* test.json = [e_test3] the run passes the verification and yields
\* train = {b_train, c_other, d_train}, test1 = {a_valid} (the one misplaced id, at
\* index 0) and test2 = {e_test3}; with records left out, it yields what is left of
\* these sets.
C12_Scenario ==
    /\ pc # "failed"
    /\ errors = <<>>
    /\ Emitted =>
         \A split \in Splits :
            /\ Range(allocation[split]) = ScenarioYield[split] \cap Range(InputIds)
            /\ Len(allocation[split]) = Cardinality(Range(allocation[split]))
    /\ (data = ScenarioData /\ Emitted) =>
         /\ train_misplaced_list = <<Str_a_valid>>
         /\ \A split \in Splits : Range(allocation[split]) = ScenarioYield[split]
    /\ (data = ScenarioData /\ pc = "done") =>
         /\ returned # <<>>
         /\ \A split \in Splits : Range(returned[1][split]) = ScenarioYield[split]
         /\ OutputPath \in DOMAIN files

\* C12 witness: the run over the whole scenario has returned.
C12_Witness ==
    /\ data = ScenarioData
    /\ pc = "done"
    /\ returned = <<allocation>>
    /\ Len(allocation["train"]) = 3

\* C15 (as claimed): a successful run writes exactly one file, the reallocation map at
\* output_path.
C15_SoleArtifact == pc = "done" => DOMAIN files = {OutputPath}

\* C15 (amended): a successful run writes exactly three files: the reallocation map at
\* output_path first, then original_map.json and reallocation_breakdown.json next to
\* it; before the verification has passed no file is written.
C15_ThreeArtifacts ==
    /\ ~Verified => files = <<>>
    /\ files # <<>> =>
         /\ OutputPath \in DOMAIN files
         /\ files[OutputPath] = ReallocationOutput(allocation, original_counts)
    /\ pc = "write_breakdown" => DOMAIN files = {OutputPath, OriginalMapPath}
    /\ pc \in {"return", "done"} =>
         /\ DOMAIN files = {OutputPath, OriginalMapPath, BreakdownPath}
         /\ files[OriginalMapPath] = OriginalOutput(samples_by_file)
         /\ files[BreakdownPath] = ReallocBreakdown(samples_by_file, allocation)

\* C15 witness: a run over some records has returned with its three files written.
C15_Witness ==
    /\ pc = "done"
    /\ returned # <<>>
    /\ Cardinality(DOMAIN files) = 3
    /\ Len(InputIds) > 0

\* C16: on every input, with or without repeated ids, the set of ids the allocation
\* puts in each split is the expected set the separate derivation built for it: the
\* verification of an untampered run finds no error and never raises.
C16_EngineMatchesVerifier ==
    /\ pc # "failed"
    /\ errors = <<>>
    /\ Emitted =>
         /\ Range(allocation["train"]) = expected.train
         /\ Range(allocation["test1"]) = expected.test1
         /\ Range(allocation["test2"]) = expected.test2

\* C16 witness: a verified run over repeated ids, two of them misplaced out of order.
C16_Witness ==
    /\ Verified
    /\ ~UniqueIds
    /\ Len(train_misplaced_list) >= 2
    /\ \E i, j \in 1..Len(data[TrainJson]) :
         i < j /\ StrLess(data[TrainJson][j].id, data[TrainJson][i].id)
             /\ bucket(data[TrainJson][i].id) \notin {"train", "other"}
             /\ bucket(data[TrainJson][j].id) \notin {"train", "other"}

\* C17: with unique ids, the run over the files with their records in another order
\* returns the same three split lists as the run before it, and hands test1 and test2
\* the same misplaced ids.
C17_OrderIndependent ==
    (UniqueIds /\ previous # <<>>) =>
        /\ (Emitted => allocation = previous[1])
        /\ (returned # <<>> => returned = previous)
        /\ (Emitted => \A split \in {"test1", "test2"} :
                Range(train_misplaced_list) \cap Range(allocation[split])
                  = Range(train_misplaced_list) \cap Range(previous[1][split]))

\* C17 witness: the second run, over the reordered records, has returned; train.json
\* holds two misplaced ids, one gone to test1 and one to test2.
C17_Witness ==
    /\ UniqueIds
    /\ previous # <<>>
    /\ returned # <<>>
    /\ Len(train_misplaced_list) = 2
    /\ returned[1]["test1"] # <<>>
    /\ returned[1]["test2"] # <<>>

\* C18: after the reallocation every id in split train has bucket train or other,
\* every id whose bucket is train is in split train (and in no other split), whatever
\* file it came from, and every id in train whose bucket is other is an id of
\* train.json.
C18_NoLeak ==
    Emitted =>
        /\ \A x \in Range(allocation["train"]) : bucket(x) \in {"train", "other"}
        /\ \A x \in Range(InputIds) :
             bucket(x) = "train" =>
                /\ x \in Range(allocation["train"])
                /\ x \notin Range(allocation["test1"]) \cup Range(allocation["test2"])
        /\ \A x \in Range(allocation["train"]) : bucket(x) = "other" => x \in IdsOf(TrainJson)

\* C18 witness: train.json held a held-out id and an other id, another file held a
\* train id; the held-out id has left train and the train id has come to it.
C18_Witness ==
    /\ Emitted
    /\ \E x \in IdsOf(TrainJson) :
         bucket(x) \notin {"train", "other"} /\ x \notin Range(allocation["train"])
    /\ \E x \in IdsOf(TrainJson) : bucket(x) = "other" /\ x \in Range(allocation["train"])
    /\ \E x \in IdsOf(DevJson) \cup IdsOf(TestJson) :
         bucket(x) = "train" /\ x \in Range(allocation["train"])

\* C13 (as claimed): no id of the map is dropped without a count: an id either gives a
\* row (counted in success; with empty orders and missing_orders counted when it has
\* no orders) or is skipped and counted in missing_transcript, so that when
\* build_simord_dataset is done total = success + missing_transcript.
C13_EveryIdCounted ==
    /\ \A k \in 1..Len(processed) :
         processed[k].row = <<>> =>
            stats.missing_transcript
              >= Cardinality({ j \in 1..k : processed[j].row = <<>> })
    /\ pc = "built" => stats.total = stats.success + stats.missing_transcript

\* No id stands on two of the original records.
UniqueEntryIds ==
    \A i, j \in 1..Len(entries) : entries[i].id = entries[j].id => i = j

\* C14: expected_orders survives, keyed by id: with unique record ids, every row built
\* from map id X carries the expected_orders of the original record whose id is X,
\* the empty list when that record has none, in whichever split the map lists X; the
\* row stands in that split of the result.
C14_OrdersSurvive ==
    UniqueEntryIds =>
        \A k \in 1..Len(processed) :
            processed[k].row # <<>> =>
                /\ \E r \in 1..Len(result_rows[processed[k].split_name]) :
                     result_rows[processed[k].split_name][r] = processed[k].row[1]
                /\ \A i \in 1..Len(entries) :
                     entries[i].id = processed[k].simord_id =>
                        processed[k].row[1].orders =
                            IF "expected_orders" \in DOMAIN entries[i]
                            THEN entries[i].expected_orders
                            ELSE <<>>

\* C14 witness: two records whose ids differ in case only, each with its orders; the
\* map lists one of them in an evaluation split and its row carries its own orders.
C14_Witness ==
    /\ pc = "built"
    /\ UniqueEntryIds
    /\ Len(entries) = 2
    /\ Lower(entries[1].id) = Lower(entries[2].id)
    /\ \E split \in {"test1", "test2"} : \E r \in 1..Len(result_rows[split]) :
         \E i \in 1..Len(entries) :
            /\ "expected_orders" \in DOMAIN entries[i]
            /\ entries[i].id \in Range(reallocation[split])
            /\ result_rows[split][r].orders = entries[i].expected_orders

\* The keys of orders_map that equal x up to case, x itself left out.
CaseVariantKeys(x) ==
    { i \in 1..Len(orders_map) :
        orders_map[i].key # x /\ SameIgnoringCase(orders_map[i].key, x) }

HasExactKey(x) == \E i \in 1..Len(orders_map) : orders_map[i].key = x

\* C20 (as claimed): when a map id has no exact key in orders_map but some key equals
\* it case-insensitively, its row receives the orders of such a key and
\* missing_orders is not incremented for it, at whatever position the key sits in
\* orders_map.
C20_CaseVariantFound ==
    /\ \A k \in 1..Len(processed) :
         (/\ processed[k].row # <<>>
          /\ ~HasExactKey(processed[k].simord_id)
          /\ CaseVariantKeys(processed[k].simord_id) # {})
            => \E i \in CaseVariantKeys(processed[k].simord_id) :
                  processed[k].row[1].orders = orders_map[i].orders
    /\ stats.missing_orders
         <= Cardinality({ k \in 1..Len(processed) :
                            /\ processed[k].row # <<>>
                            /\ ~HasExactKey(processed[k].simord_id)
                            /\ CaseVariantKeys(processed[k].simord_id) = {} })

\* The ids of the map are pairwise distinct.
DistinctMapIds ==
    LET items == MapItems(reallocation, 1) IN
    \A i, j \in 1..Len(items) : items[i].simord_id = items[j].simord_id => i = j

\* C19 (as claimed): for a map with pairwise distinct ids, the rows built have pairwise
\* distinct ids: the rewriting of the acibench and primock ids never gives two
\* different map ids the same row id.
C19_RowIdsUnique ==
    DistinctMapIds =>
        \A j, k \in 1..Len(processed) :
            (/\ processed[j].row # <<>>
             /\ processed[k].row # <<>>
             /\ processed[j].row[1].id = processed[k].row[1].id) => j = k

====
